---- MODULE Spec2Model ----
(***************************************************************************)
(* PlateMap (src/platemap_app.py): a Streamlit script that detects food on *)
(* an uploaded photo and enriches every detected item with an origin, its  *)
(* nutrition facts and a quirky fact, each lookup memoised by lru_cache.   *)
(*                                                                         *)
(* External services (vision, encyclopedia, atlas page, geocoder,          *)
(* nutrition API, completion API) are the environment: every response they *)
(* can give is an input drawn from a small set.                            *)
(***************************************************************************)
EXTENDS Integers, Sequences, FiniteSets, TLC

VARIABLES
    call,            \* the direct call under study: the function's arguments
    ret,             \* what that call produced (Pending before it ran)
    env,             \* os.environ: which credentials are set
    pc,              \* position of the script run
    uploaded_file,   \* st.file_uploader's value (TRUE: a file was uploaded)
    user_location,   \* st.text_input's value ("" when empty)
    response,        \* the vision service's localized_object_annotations
    detected_foods,  \* detect_food_from_image's first result
    image_cv,        \* annotations drawn on the image written to disk
    idx,             \* index of the item the per-item loop is at
    ui,              \* what the run has surfaced, in order
    events,          \* resolver calls of the run, in order
    ext_calls,       \* external service calls of the run, in order
    exc,             \* the exception that ended the run ("" if none)
    cache,           \* per function: lru_cache's entries, least recent first
    kind,            \* the cached function the concurrent callers use
    threads,         \* per caller: its position in the lru_cache wrapper
    computes,        \* per key: how often the wrapped function was invoked
    expected         \* keys a least-recently-used cache holds after the same lookups

vars == <<call, ret, env, pc, uploaded_file, user_location, response,
          detected_foods, image_cv, idx, ui, events, ext_calls, exc,
          cache, kind, threads, computes, expected>>

callVars == <<call, ret>>
scriptVars == <<env, pc, uploaded_file, user_location, response,
                detected_foods, image_cv, idx, ui, events, ext_calls, exc>>
cacheVars == <<cache, kind, threads, computes, expected>>

----------------------------------------------------------------------------
(* Results of a call: a value, or an exception that propagates.            *)

Pending == [tag |-> "pending"]
Return(v) == [tag |-> "return", value |-> v]
Raise(e) == [tag |-> "raise", exc |-> e]

(* dict.get(key, default) *)
Get(d, k, default) == IF k \in DOMAIN d THEN d[k] ELSE default

(* range of a sequence *)
Range(s) == {s[i] : i \in DOMAIN s}

----------------------------------------------------------------------------
(* String conversions, over the strings of the model.                      *)

(* str.lower() *)
Lower(s) ==
    CASE s = "Food" -> "food"
      [] s = "FOOD" -> "food"
      [] s = "Dish" -> "dish"
      [] s = "Plate" -> "plate"
      [] s = "Person" -> "person"
      [] s = "Pizza" -> "pizza"
      [] s = "Fish And Chips" -> "fish and chips"
      [] s = "Xyzzyfood123" -> "xyzzyfood123"
      [] OTHER -> s

(* str.replace(' ', '-') *)
ReplaceSpaces(s) ==
    CASE s = "fish and chips" -> "fish-and-chips"
      [] OTHER -> s

(* str.split(",")[0] *)
SplitFirst(s) ==
    CASE s = "Naples, Italy" -> "Naples"
      [] s = "England, United Kingdom" -> "England"
      [] OTHER -> s

----------------------------------------------------------------------------
(* get_food_origin_coordinates                                             *)

FoodNames == {"Pizza", "Fish And Chips", "Xyzzyfood123"}

WikiSummaries == {"Pizza is a dish of Italian origin.", "Fish and chips is a hot dish."}
(* meta descriptions of atlas pages; none of them reads "Unknown origin" *)
AtlasTexts == {"Naples, Italy", "England, United Kingdom", "Traditional dish"}
Latitudes == {0, 41}
Longitudes == {0, 14}

(* geolocator.geocode(query): raises, finds nothing, or a location *)
GeocodeOutcomes ==
    {[tag |-> "raise"], [tag |-> "None"]}
        \cup [tag : {"loc"}, latitude : Latitudes, longitude : Longitudes]

(* wikipedia.summary(food_name, sentences=2): raises (page not found, *)
(* disambiguation, network) or the summary                             *)
WikiOutcomes == {[tag |-> "raise"]} \cup [tag : {"ok"}, text : WikiSummaries]

(* soup.find("meta", {"name": "description"}): None, a tag without a *)
(* content attribute, or a tag with one                               *)
MetaOutcomes ==
    {[tag |-> "None"], [tag |-> "meta"]} \cup [tag : {"meta"}, content : AtlasTexts]

(* requests.get(url): raises, or a response (an error page is HTML too) *)
AtlasOutcomes ==
    {[tag |-> "raise"]}
        \cup [tag : {"resp"}, status_code : {200, 404, 500},
              description : MetaOutcomes]

(* what the services answer during one call *)
OriginWorlds ==
    [wiki : WikiOutcomes, wiki_location : GeocodeOutcomes,
     atlas : AtlasOutcomes, location : GeocodeOutcomes]

Sentinel == <<"Unknown origin", 0, 0>>

(* line 81: the atlas page of a food name *)
AtlasUrl(food_name) ==
    "https://www.tasteatlas.com/" \o ReplaceSpaces(Lower(food_name))

(* the record put in front of the list instead of at its end *)
AddOriginFront(origins, record) == <<record>> \o origins

(* lines 75 and 89: origins.append(record) *)
AddOrigin(origins, record) == Append(origins, record)

(* the status code not looked at *)
PageFoundAny(resp) == TRUE

(* line 83 *)
PageFound(resp) == resp.status_code = 200

(* lines 70-77. o: [origins, calls] *)
WikipediaOrigin(o, food_name, w) ==
    IF w.wiki.tag = "raise"
    THEN [o EXCEPT !.calls = Append(@, <<"wikipedia.summary", food_name>>)]
    ELSE LET c == o.calls \o << <<"wikipedia.summary", food_name>>,
                                <<"geocode", food_name>> >>
         IN  IF w.wiki_location.tag = "loc"
             THEN [origins |-> AddOrigin(o.origins,
                                         <<"Wikipedia: " \o w.wiki.text,
                                           w.wiki_location.latitude,
                                           w.wiki_location.longitude>>),
                   calls |-> c]
             ELSE [o EXCEPT !.calls = c]

(* line 86 *)
LocationText(description, food_name) ==
    IF description.tag = "None"
    THEN [tag |-> "ok", text |-> "No specific origins found for " \o food_name]
    ELSE IF "content" \in DOMAIN description
         THEN [tag |-> "ok", text |-> description.content]
         ELSE [tag |-> "raise"]

(* lines 79-91 *)
FoodAtlasOrigin(o, food_name, w) ==
    LET got == Append(o.calls, <<"requests.get", AtlasUrl(food_name)>>)
    IN  IF w.atlas.tag = "raise" \/ ~PageFound(w.atlas)
        THEN [o EXCEPT !.calls = got]
        ELSE LET location_text == LocationText(w.atlas.description, food_name)
             IN  IF location_text.tag = "raise"
                 THEN [o EXCEPT !.calls = got]
                 ELSE LET c == Append(got, <<"geocode", SplitFirst(location_text.text)>>)
                      IN  IF w.location.tag = "loc"
                          THEN [origins |-> AddOrigin(o.origins,
                                                      <<location_text.text,
                                                        w.location.latitude,
                                                        w.location.longitude>>),
                                calls |-> c]
                          ELSE [o EXCEPT !.calls = c]

(* the fallback record appended whether or not the list is empty *)
UnknownOriginAlways(o) == [o EXCEPT !.origins = Append(@, Sentinel)]

(* lines 93-94 *)
UnknownOrigin(o) ==
    IF o.origins = <<>> THEN [o EXCEPT !.origins = Append(@, Sentinel)] ELSE o

(* lines 67-96, without the cache: the list returned and the external *)
(* calls made, in order                                                *)
get_food_origin_coordinates(food_name, w) ==
    UnknownOrigin(
        FoodAtlasOrigin(
            WikipediaOrigin([origins |-> <<>>, calls |-> <<>>], food_name, w),
            food_name, w))

----------------------------------------------------------------------------
(* get_nutritional_data                                                    *)

MaxNutrients == 5

(* entries of a food's "foodNutrients" list, with or without a "value" *)
NutrientEntries ==
    {[nutrientName |-> "Energy", value |-> 266],
     [nutrientName |-> "Protein", value |-> 11],
     [nutrientName |-> "Water"]}

NutrientLists == UNION {[1..n -> NutrientEntries] : n \in 0..MaxNutrients}

(* a food of the "foods" array, with or without "foodNutrients" *)
FoodItems ==
    {[description |-> "PIZZA"]}
        \cup [description : {"PIZZA"}, foodNutrients : NutrientLists]

(* response.json(): raises on a body that is not JSON, or the payload *)
JsonOutcomes ==
    {[tag |-> "invalid"]}
        \cup [tag : {"data"},
              data : {[totalHits |-> 0], [totalHits |-> 0, foods |-> <<>>]}
                        \cup {[totalHits |-> 1, foods |-> <<f>>] : f \in FoodItems}]

(* requests.get(url): raises, or a response *)
NutritionOutcomes ==
    {[tag |-> "raise"]}
        \cup [tag : {"resp"}, status_code : {404, 500}]
        \cup [tag : {"resp"}, status_code : {200}, json : JsonOutcomes]

NutrientFields == <<"Calories", "Protein", "Fat", "Carbs">>

(* lines 108-111: food.get("foodNutrients", [{}])[i].get("value", "N/A"), *)
(* i counted from 0                                                        *)
NutrientValue(food, i) ==
    LET l == Get(food, "foodNutrients", <<[e \in {} |-> 0]>>)
    IN  IF i + 1 > Len(l) THEN Raise("IndexError")
        ELSE Return(Get(l[i + 1], "value", "N/A"))

(* lines 107-113 *)
Nutrients(food) ==
    LET v == [i \in 1..Len(NutrientFields) |-> NutrientValue(food, i - 1)]
    IN  IF \E i \in DOMAIN v : v[i].tag = "raise"
        THEN Raise("IndexError")
        ELSE Return([Calories |-> v[1].value, Protein |-> v[2].value,
                     Fat |-> v[3].value, Carbs |-> v[4].value])

NoNutritionalData(food_name) == "No nutritional data for " \o food_name \o "."

(* lines 100-114, without the cache *)
get_nutritional_data(food_name, r) ==
    IF r.tag = "raise" THEN Raise("RequestException")
    ELSE IF r.status_code # 200 THEN Return(NoNutritionalData(food_name))
    ELSE IF r.json.tag = "invalid" THEN Raise("JSONDecodeError")
    ELSE IF Get(r.json.data, "foods", <<>>) = <<>>
         THEN Return(NoNutritionalData(food_name))
         ELSE Nutrients(r.json.data.foods[1])

----------------------------------------------------------------------------
(* generate_quirky_fact                                                    *)

(* str.strip() *)
Strip(s) ==
    CASE s = "\n\nPizza Margherita is named after a queen." ->
             "Pizza Margherita is named after a queen."
      [] s = " Chips were once wrapped in newspaper.\n" ->
             "Chips were once wrapped in newspaper."
      [] OTHER -> s

CompletionTexts ==
    {"\n\nPizza Margherita is named after a queen.",
     " Chips were once wrapped in newspaper.\n"}

(* openai.Completion.create(...): raises, or a response with its choices *)
FactOutcomes ==
    {[tag |-> "raise"], [tag |-> "ok", choices |-> <<>>]}
        \cup {[tag |-> "ok", choices |-> <<[text |-> t]>>] : t \in CompletionTexts}

NoQuirkyFact == "Could not generate a quirky fact."

(* lines 118-127, without the cache *)
generate_quirky_fact(food_name, r) ==
    IF r.tag = "raise" \/ r.choices = <<>>
    THEN NoQuirkyFact
    ELSE Strip(r.choices[1].text)

----------------------------------------------------------------------------
(* functools.lru_cache(maxsize=50): the entries of one cache, the least    *)
(* recently used first.                                                    *)

maxsize == 50

CacheKeys(c) == {c[i].key : i \in DOMAIN c}

(* a wrapper that never finds a key *)
CacheHasNever(c, k) == FALSE

(* the wrapper's cache_get(key) is not the miss sentinel *)
CacheHas(c, k) == k \in CacheKeys(c)

CacheValue(c, k) == (CHOOSE e \in Range(c) : e.key = k).val

(* a hit moves the entry to the most recently used end *)
Touch(c, k) ==
    LET keep == SelectSeq(c, LAMBDA e : e.key # k)
    IN  Append(keep, CHOOSE e \in Range(c) : e.key = k)

(* after the wrapped function returned: nothing if the key was added *)
(* meanwhile, else the new entry, in place of the oldest when full   *)
Store(c, k, v) ==
    IF CacheHas(c, k) THEN c
    ELSE IF Len(c) >= maxsize THEN Append(Tail(c), [key |-> k, val |-> v])
    ELSE Append(c, [key |-> k, val |-> v])

(* one whole call through the wrapper by a caller nobody interleaves  *)
(* with; computed is what the wrapped function does if it is invoked  *)
LruCall(c, k, computed) ==
    IF CacheHas(c, k)
    THEN [cache |-> Touch(c, k), result |-> Return(CacheValue(c, k)), hit |-> TRUE]
    ELSE IF computed.tag = "raise"
         THEN [cache |-> c, result |-> computed, hit |-> FALSE]
         ELSE [cache |-> Store(c, k, computed.value), result |-> computed,
               hit |-> FALSE]

----------------------------------------------------------------------------
(* detect_food_from_image                                                  *)

MaxObjects == 2

AcceptedLabels == {"food", "dish", "plate"}

(* obj.name of the objects the vision service localizes *)
Labels == {"Food", "dish", "Person"}

(* bounding_poly.normalized_vertices, each coordinate in hundredths *)
Boxes ==
    {<<[x |-> 10, y |-> 20], [x |-> 65, y |-> 20],
       [x |-> 65, y |-> 85], [x |-> 10, y |-> 85]>>}

(* obj.score, in hundredths *)
Scores == {87}

LocalizedObjects == [name : Labels, score : Scores, normalized_vertices : Boxes]

(* response.localized_object_annotations *)
Annotations == UNION {[1..n -> LocalizedObjects] : n \in 0..MaxObjects}

(* image_cv.shape of the uploaded image *)
Shape == [height |-> 300, width |-> 401]

(* line 53: (int(v.x * shape[1]), int(v.y * shape[0])) *)
Pixel(v, shape) == <<(v.x * shape.width) \div 100, (v.y * shape.height) \div 100>>

(* lines 50-59: the loop over the localized objects, acc: what the *)
(* objects before these gave                                        *)
RECURSIVE Annotate(_, _, _)
Annotate(objs, shape, acc) ==
    IF objs = <<>> THEN acc
    ELSE LET obj == Head(objs)
             vertices == [i \in DOMAIN obj.normalized_vertices |->
                             Pixel(obj.normalized_vertices[i], shape)]
         IN  IF Lower(obj.name) \in AcceptedLabels
             THEN Annotate(Tail(objs), shape,
                      [detected_foods |->
                           Append(acc.detected_foods,
                                  [name |-> obj.name, confidence |-> obj.score,
                                   vertices |-> vertices]),
                       image_cv |->
                           acc.image_cv \o
                               <<[draw |-> "rectangle", pt1 |-> vertices[1],
                                  pt2 |-> vertices[3]],
                                 [draw |-> "putText", text |-> obj.name,
                                  org |-> <<vertices[1][1], vertices[1][2] - 10>>]>>])
             ELSE Annotate(Tail(objs), shape, acc)

(* lines 40-63, given what the vision service answered: the detections *)
(* and what was drawn on the image written to annotated_image.jpg      *)
detect_food_from_image(objs, shape) ==
    Annotate(objs, shape, [detected_foods |-> <<>>, image_cv |-> <<>>])

----------------------------------------------------------------------------
(* The script run: lines 14-37 (start-up) and 145-167 (the request cycle). *)
(* The working directory is writable and the upload decodes as an image.   *)

Credentials == {"GOOGLE_APPLICATION_CREDENTIALS_PATH", "OPENAI_API_KEY", "USDA_API_KEY"}

UserLocations == {"", "Boston, Massachusetts"}

(* what the services answer during a run *)
RunOriginWorlds ==
    {[wiki |-> [tag |-> "ok", text |-> "Pizza is a dish of Italian origin."],
      wiki_location |-> [tag |-> "loc", latitude |-> 41, longitude |-> 14],
      atlas |-> [tag |-> "resp", status_code |-> 200,
                 description |-> [tag |-> "meta", content |-> "Naples, Italy"]],
      location |-> [tag |-> "loc", latitude |-> 41, longitude |-> 14]],
     [wiki |-> [tag |-> "raise"],
      wiki_location |-> [tag |-> "None"],
      atlas |-> [tag |-> "resp", status_code |-> 200, description |-> [tag |-> "None"]],
      location |-> [tag |-> "loc", latitude |-> 0, longitude |-> 14]],
     [wiki |-> [tag |-> "ok", text |-> "Fish and chips is a hot dish."],
      wiki_location |-> [tag |-> "None"],
      atlas |-> [tag |-> "resp", status_code |-> 404,
                 description |-> [tag |-> "None"]],
      location |-> [tag |-> "None"]]}

RunNutritionOutcomes ==
    {[tag |-> "raise"],
     [tag |-> "resp", status_code |-> 404],
     [tag |-> "resp", status_code |-> 200,
      json |-> [tag |-> "data",
                data |-> [totalHits |-> 1,
                          foods |-> <<[description |-> "PIZZA",
                                       foodNutrients |->
                                           <<[nutrientName |-> "Energy", value |-> 266]>>]>>]]],
     [tag |-> "resp", status_code |-> 200,
      json |-> [tag |-> "data",
                data |-> [totalHits |-> 1,
                          foods |-> <<[description |-> "PIZZA",
                                       foodNutrients |->
                                           <<[nutrientName |-> "Energy", value |-> 266],
                                             [nutrientName |-> "Protein", value |-> 11],
                                             [nutrientName |-> "Water"],
                                             [nutrientName |-> "Energy", value |-> 266]>>]>>]]]}

RunFactOutcomes ==
    {[tag |-> "raise"],
     [tag |-> "ok", choices |-> <<[text |-> " Chips were once wrapped in newspaper.\n"]>>]}

(* line 101: an unset key is formatted as "None"; the service refuses it *)
NutritionUrl(food_name, e) ==
    "https://api.nal.usda.gov/fdc/v1/foods/search?query=" \o food_name
        \o "&api_key=" \o (IF e["USDA_API_KEY"] THEN "<USDA_API_KEY>" ELSE "None")

NutritionAnswers(e) ==
    IF e["USDA_API_KEY"] THEN RunNutritionOutcomes
    ELSE {[tag |-> "raise"], [tag |-> "resp", status_code |-> 403]}

(* without openai.api_key the client raises before any request is sent *)
FactAnswers(e) ==
    IF e["OPENAI_API_KEY"] THEN RunFactOutcomes ELSE {[tag |-> "raise"]}

(* vision.ImageAnnotatorClient() and client.object_localization(...): *)
(* raises, or the annotations (without the credentials file the client *)
(* may still find application default credentials)                     *)
VisionAnswers == {[tag |-> "raise"]} \cup [tag : {"ok"}, objects : Annotations]

GoogleNotFound == "Google Vision credentials not found. Check your environment variables."

(* lines 14-37 *)
Startup ==
    /\ pc = "start"
    /\ ui' = ui \o <<[widget |-> "success", text |-> "File write test passed!"]>>
                \o (IF env["GOOGLE_APPLICATION_CREDENTIALS_PATH"] THEN <<>>
                    ELSE <<[widget |-> "error", text |-> GoogleNotFound]>>)
    /\ pc' = "form"
    /\ UNCHANGED <<env, uploaded_file, user_location, response, detected_foods,
                   image_cv, idx, events, ext_calls, exc>>
    /\ UNCHANGED <<callVars, cacheVars>>

(* lines 145-149: the widgets and what the user gave them *)
Form ==
    /\ pc = "form"
    /\ \E f \in BOOLEAN, loc \in UserLocations :
         /\ uploaded_file' = f
         /\ user_location' = loc
         /\ pc' = IF f /\ loc # "" THEN "detect" ELSE "done"
    /\ ui' = ui \o <<[widget |-> "title"], [widget |-> "file_uploader"],
                     [widget |-> "text_input"]>>
    /\ UNCHANGED <<env, response, detected_foods, image_cv, idx, events,
                   ext_calls, exc>>
    /\ UNCHANGED <<callVars, cacheVars>>

(* lines 150-155 *)
Detect ==
    /\ pc = "detect"
    /\ \E v \in VisionAnswers :
         /\ ext_calls' = Append(ext_calls, <<"vision.object_localization">>)
         /\ IF v.tag = "raise"
            THEN /\ pc' = "raised"
                 /\ exc' = "GoogleAPIError"
                 /\ UNCHANGED <<response, detected_foods, image_cv, ui>>
            ELSE LET d == detect_food_from_image(v.objects, Shape)
                 IN  /\ response' = v.objects
                     /\ detected_foods' = d.detected_foods
                     /\ image_cv' = d.image_cv
                     /\ ui' = Append(ui, [widget |-> "image",
                                          annotations |-> d.image_cv])
                     /\ pc' = "loop"
                     /\ exc' = exc
    /\ UNCHANGED <<env, uploaded_file, user_location, idx, events>>
    /\ UNCHANGED <<callVars, cacheVars>>

(* lines 157-158: the loop's head and the item's subheader *)
LoopHead ==
    /\ pc = "loop"
    /\ IF idx < Len(detected_foods)
       THEN /\ idx' = idx + 1
            /\ ui' = Append(ui, [widget |-> "subheader", item |-> idx + 1,
                                 name |-> detected_foods[idx + 1].name,
                                 confidence |-> detected_foods[idx + 1].confidence])
            /\ pc' = "origin"
       ELSE /\ pc' = "map"
            /\ UNCHANGED <<idx, ui>>
    /\ UNCHANGED <<env, uploaded_file, user_location, response, detected_foods,
                   image_cv, events, ext_calls, exc>>
    /\ UNCHANGED <<callVars, cacheVars>>

(* the loop going on to the next item without the fact *)
AfterResolverSkip(fn) ==
    CASE fn = "origin" -> "nutrition"
      [] fn = "nutrition" -> "loop"
      [] fn = "fact" -> "loop"

(* lines 159-162: the statement after each resolver's line *)
AfterResolver(fn) ==
    CASE fn = "origin" -> "nutrition"
      [] fn = "nutrition" -> "fact"
      [] fn = "fact" -> "loop"

(* line 159 *)
ItemOrigin ==
    /\ pc = "origin"
    /\ LET name == detected_foods[idx].name
       IN  \E w \in RunOriginWorlds :
             LET o == get_food_origin_coordinates(name, w)
                 r == LruCall(cache["origin"], name, Return(o.origins))
             IN  /\ cache' = [cache EXCEPT !["origin"] = r.cache]
                 /\ ext_calls' = IF r.hit THEN ext_calls ELSE ext_calls \o o.calls
                 /\ events' = Append(events, [item |-> idx, fn |-> "origin",
                                              outcome |-> "return"])
                 /\ ui' = Append(ui, [widget |-> "markdown", item |-> idx,
                                      field |-> "origin",
                                      value |-> "**Wikipedia:** "
                                                    \o r.result.value[1][1]])
    /\ pc' = AfterResolver("origin")
    /\ UNCHANGED <<env, uploaded_file, user_location, response, detected_foods,
                   image_cv, idx, exc>>
    /\ UNCHANGED <<callVars, kind, threads, computes, expected>>

(* lines 160-161 *)
ItemNutrition ==
    /\ pc = "nutrition"
    /\ LET name == detected_foods[idx].name
       IN  \E a \in NutritionAnswers(env) :
             LET r == LruCall(cache["nutrition"], name, get_nutritional_data(name, a))
             IN  /\ cache' = [cache EXCEPT !["nutrition"] = r.cache]
                 /\ ext_calls' = IF r.hit THEN ext_calls
                                 ELSE Append(ext_calls,
                                             <<"requests.get", NutritionUrl(name, env)>>)
                 /\ events' = Append(events, [item |-> idx, fn |-> "nutrition",
                                              outcome |-> r.result.tag])
                 /\ IF r.result.tag = "raise"
                    THEN /\ pc' = "raised"
                         /\ exc' = r.result.exc
                         /\ ui' = Append(ui, [widget |-> "markdown", item |-> idx,
                                              field |-> "heading",
                                              value |-> "**Nutritional Data:**"])
                    ELSE /\ pc' = AfterResolver("nutrition")
                         /\ exc' = exc
                         /\ ui' = ui \o <<[widget |-> "markdown", item |-> idx,
                                           field |-> "heading",
                                           value |-> "**Nutritional Data:**"],
                                          [widget |-> "json", item |-> idx,
                                           field |-> "nutrition",
                                           value |-> r.result.value]>>
    /\ UNCHANGED <<env, uploaded_file, user_location, response, detected_foods,
                   image_cv, idx>>
    /\ UNCHANGED <<callVars, kind, threads, computes, expected>>

(* line 162 *)
ItemFact ==
    /\ pc = "fact"
    /\ LET name == detected_foods[idx].name
       IN  \E a \in FactAnswers(env) :
             LET r == LruCall(cache["fact"], name,
                              Return(generate_quirky_fact(name, a)))
             IN  /\ cache' = [cache EXCEPT !["fact"] = r.cache]
                 /\ ext_calls' = IF r.hit \/ ~env["OPENAI_API_KEY"] THEN ext_calls
                                 ELSE Append(ext_calls,
                                             <<"openai.Completion.create", name>>)
                 /\ events' = Append(events, [item |-> idx, fn |-> "fact",
                                              outcome |-> "return"])
                 /\ ui' = Append(ui, [widget |-> "markdown", item |-> idx,
                                      field |-> "fact",
                                      value |-> "**Quirky Fact:** " \o r.result.value])
    /\ pc' = AfterResolver("fact")
    /\ UNCHANGED <<env, uploaded_file, user_location, response, detected_foods,
                   image_cv, idx, exc>>
    /\ UNCHANGED <<callVars, kind, threads, computes, expected>>

(* geolocator.geocode(user_location) *)
UserGeocodeAnswers ==
    {[tag |-> "raise"], [tag |-> "None"],
     [tag |-> "loc", latitude |-> 42, longitude |-> -71]}

(* lines 134-137: the rows of the data frame *)
MapRows(user_coords, food_origins) ==
    <<[Name |-> "User Location", Latitude |-> user_coords.latitude,
       Longitude |-> user_coords.longitude, Type |-> "Consumption Place"]>>
        \o [i \in DOMAIN food_origins |->
               [Name |-> food_origins[i][1], Latitude |-> food_origins[i][2],
                Longitude |-> food_origins[i][3], Type |-> "Food Origin"]]

MapHeading == [widget |-> "markdown", item |-> 0, field |-> "heading", value |-> "## Map"]

(* lines 164-167, with visualize_with_kepler (lines 130-142) *)
Map ==
    /\ pc = "map"
    /\ IF detected_foods = <<>>
       THEN /\ pc' = "raised"
            /\ exc' = "IndexError"
            /\ ui' = Append(ui, MapHeading)
            /\ UNCHANGED <<cache, events, ext_calls>>
       ELSE LET name == detected_foods[1].name
            IN  \E g \in UserGeocodeAnswers, w \in RunOriginWorlds :
                  /\ IF g.tag = "raise"
                     THEN /\ pc' = "raised"
                          /\ exc' = "GeocoderServiceError"
                          /\ ui' = Append(ui, MapHeading)
                          /\ ext_calls' = Append(ext_calls, <<"geocode", user_location>>)
                          /\ UNCHANGED <<cache, events>>
                     ELSE LET o == get_food_origin_coordinates(name, w)
                              r == LruCall(cache["origin"], name, Return(o.origins))
                          IN  /\ cache' = [cache EXCEPT !["origin"] = r.cache]
                              /\ ext_calls' =
                                     Append(ext_calls, <<"geocode", user_location>>)
                                         \o (IF r.hit THEN <<>> ELSE o.calls)
                              /\ events' = Append(events, [item |-> 0, fn |-> "origin",
                                                           outcome |-> "return"])
                              /\ IF g.tag = "None"
                                 THEN /\ pc' = "raised"
                                      /\ exc' = "AttributeError"
                                      /\ ui' = Append(ui, MapHeading)
                                 ELSE /\ pc' = "done"
                                      /\ exc' = exc
                                      /\ ui' = ui \o
                                             <<MapHeading,
                                               [widget |-> "download_button",
                                                rows |-> MapRows(g, r.result.value)]>>
    /\ UNCHANGED <<env, uploaded_file, user_location, response, detected_foods,
                   image_cv, idx>>
    /\ UNCHANGED <<callVars, kind, threads, computes, expected>>

IdleCall == call = [fn |-> "none"] /\ ret = Pending

IdleCache ==
    /\ cache = [f \in {"origin", "nutrition", "fact"} |-> <<>>]
    /\ kind = "none"
    /\ threads = <<>>
    /\ computes = <<>>
    /\ expected = <<>>

IdleScript ==
    /\ env = [c \in Credentials |-> TRUE]
    /\ pc = "off"
    /\ uploaded_file = FALSE
    /\ user_location = ""
    /\ response = <<>>
    /\ detected_foods = <<>>
    /\ image_cv = <<>>
    /\ idx = 0
    /\ ui = <<>>
    /\ events = <<>>
    /\ ext_calls = <<>>
    /\ exc = ""

(* the process starts with any of the credentials set or unset *)
Init ==
    /\ env \in [Credentials -> BOOLEAN]
    /\ pc = "start"
    /\ uploaded_file = FALSE
    /\ user_location = ""
    /\ response = <<>>
    /\ detected_foods = <<>>
    /\ image_cv = <<>>
    /\ idx = 0
    /\ ui = <<>>
    /\ events = <<>>
    /\ ext_calls = <<>>
    /\ exc = ""
    /\ IdleCall
    /\ IdleCache

Next ==
    \/ Startup
    \/ Form
    \/ Detect
    \/ LoopHead
    \/ ItemOrigin
    \/ ItemNutrition
    \/ ItemFact
    \/ Map

Spec == Init /\ [][Next]_vars

----------------------------------------------------------------------------
(* Direct calls of the resolvers, on every answer the services can give.   *)

InitOrigin ==
    /\ call \in [fn : {"get_food_origin_coordinates"}, food_name : FoodNames,
                 w : OriginWorlds]
    /\ ret = Pending
    /\ IdleScript
    /\ IdleCache

CallOrigin ==
    /\ call.fn = "get_food_origin_coordinates"
    /\ ret = Pending
    /\ ret' = Return(get_food_origin_coordinates(call.food_name, call.w))
    /\ UNCHANGED <<call, scriptVars, cacheVars>>

SpecOrigin == InitOrigin /\ [][CallOrigin]_vars

InitNutrition ==
    /\ call \in [fn : {"get_nutritional_data"}, food_name : FoodNames,
                 r : NutritionOutcomes]
    /\ ret = Pending
    /\ IdleScript
    /\ IdleCache

CallNutrition ==
    /\ call.fn = "get_nutritional_data"
    /\ ret = Pending
    /\ ret' = get_nutritional_data(call.food_name, call.r)
    /\ UNCHANGED <<call, scriptVars, cacheVars>>

SpecNutrition == InitNutrition /\ [][CallNutrition]_vars

----------------------------------------------------------------------------
(* Callers of one cached function, each inside the lru_cache wrapper. The  *)
(* wrapper looks the key up, calls the wrapped function on a miss (other   *)
(* callers run meanwhile: the function waits on the network) and stores    *)
(* the result. Food names are numbered; a value <<k, v>> is what the       *)
(* services gave for name k at the v-th of their possible answers.         *)

NumThreads == 2
HotKeys == 2
NewKeys == 2
MaxLookups == 2
MaxVersions == 2

Threads == 1..NumThreads

AllKeys == 1..(maxsize + NewKeys)

(* the names the callers ask for: the first ones cached, and new ones *)
LookupKeys == (1..HotKeys) \cup ((maxsize + 1)..(maxsize + NewKeys))

CachedFunctions == {"origin", "nutrition", "fact"}

(* lines 100-114 have no try: get_nutritional_data can raise; lines *)
(* 71-91 and 119-127 catch everything                                *)
CanRaise(f) == f = "nutrition"

(* the least-recently-used policy on keys alone, of maxsize entries: *)
(* what a lookup of k leaves, the least recently used key first      *)
Lru(s, k) ==
    LET keep == SelectSeq(s, LAMBDA x : x # k)
    IN  IF Len(keep) >= maxsize THEN Append(Tail(keep), k) ELSE Append(keep, k)

RECURSIVE Sum(_, _)
Sum(f, S) ==
    IF S = {} THEN 0
    ELSE LET x == CHOOSE x \in S : TRUE IN f[x] + Sum(f, S \ {x})

Started == Sum([t \in Threads |-> threads[t].n], Threads)

(* the cache after the names 1..fill were looked up once each, in order *)
InitCache ==
    /\ kind \in CachedFunctions
    /\ \E fill \in {maxsize - 1, maxsize} :
         /\ cache = [f \in CachedFunctions |->
                        IF f = kind
                        THEN [i \in 1..fill |-> [key |-> i, val |-> <<i, 1>>]]
                        ELSE <<>>]
         /\ computes = [k \in AllKeys |-> IF k <= fill THEN 1 ELSE 0]
         /\ expected = [i \in 1..fill |-> i]
    /\ threads = [t \in Threads |->
                     [pc |-> "idle", n |-> 0, key |-> 0, result |-> Pending]]
    /\ IdleCall
    /\ IdleScript

(* the wrapper up to the call of the wrapped function *)
Lookup(t, k) ==
    /\ threads[t].pc = "idle"
    /\ Started < MaxLookups
    /\ IF CacheHas(cache[kind], k)
       THEN /\ threads' = [threads EXCEPT ![t] =
                              [pc |-> "idle", n |-> @.n + 1, key |-> k,
                               result |-> Return(CacheValue(cache[kind], k))]]
            /\ cache' = [cache EXCEPT ![kind] = Touch(@, k)]
            /\ expected' = Lru(expected, k)
            /\ UNCHANGED computes
       ELSE /\ threads' = [threads EXCEPT ![t] =
                              [pc |-> "computing", n |-> @.n + 1, key |-> k,
                               result |-> Pending]]
            /\ computes' = [computes EXCEPT ![k] = @ + 1]
            /\ UNCHANGED <<cache, expected>>
    /\ UNCHANGED <<kind, callVars, scriptVars>>

(* the wrapped function returned: the wrapper stores and returns its result *)
ComputeReturn(t) ==
    /\ threads[t].pc = "computing"
    /\ \E v \in 1..MaxVersions :
         LET k == threads[t].key
         IN  /\ cache' = [cache EXCEPT ![kind] = Store(@, k, <<k, v>>)]
             /\ threads' = [threads EXCEPT ![t].pc = "idle",
                                           ![t].result = Return(<<k, v>>)]
             /\ expected' = Lru(expected, k)
    /\ UNCHANGED <<kind, computes, callVars, scriptVars>>

(* the wrapped function raised: the exception passes through the wrapper *)
ComputeRaise(t) ==
    /\ threads[t].pc = "computing"
    /\ CanRaise(kind)
    /\ threads' = [threads EXCEPT ![t].pc = "idle",
                                  ![t].result = Raise("RequestException")]
    /\ expected' = Lru(expected, threads[t].key)
    /\ UNCHANGED <<cache, kind, computes, callVars, scriptVars>>

NextCache ==
    \E t \in Threads :
        \/ \E k \in LookupKeys : Lookup(t, k)
        \/ ComputeReturn(t)
        \/ ComputeRaise(t)

(* callers that may overlap *)
SpecCache == InitCache /\ [][NextCache]_vars

NextLru ==
    \/ \E k \in LookupKeys : Lookup(1, k)
    \/ ComputeReturn(1)
    \/ ComputeRaise(1)

(* one caller: the lookups come one after another *)
SpecLru == InitCache /\ [][NextLru]_vars

----------------------------------------------------------------------------
(* Properties of get_food_origin_coordinates, under SpecOrigin.            *)

(* every step of the encyclopedia source succeeded: the summary was *)
(* found and the food name geocoded                                  *)
WikiSucceeds(w) == w.wiki.tag = "ok" /\ w.wiki_location.tag = "loc"

(* every step of the atlas source succeeded: the page came with    *)
(* status 200, its description could be read (or there is none and *)
(* the text is synthesized) and the text geocoded                  *)
AtlasSucceeds(w) ==
    /\ w.atlas.tag = "resp"
    /\ w.atlas.status_code = 200
    /\ (w.atlas.description.tag = "None" \/ "content" \in DOMAIN w.atlas.description)
    /\ w.location.tag = "loc"

IsWikiRecord(rec) == rec[1] \in {"Wikipedia: " \o t : t \in WikiSummaries}

IsAtlasRecord(rec) ==
    rec[1] \in AtlasTexts \cup {"No specific origins found for " \o f : f \in FoodNames}

WikiRecords(origins) == SelectSeq(origins, IsWikiRecord)
AtlasRecords(origins) == SelectSeq(origins, IsAtlasRecord)

Returned == ret.tag = "return"

(* C1: whatever the encyclopedia, the atlas page and the geocoder do,    *)
(* the list returned is not empty; when both sources fail it is exactly  *)
(* the one record ("Unknown origin", 0, 0); and that record never stands *)
(* beside a record of a source.                                          *)
C1_NonEmptyWithSentinel ==
    Returned =>
        LET origins == ret.value.origins
        IN  /\ origins # <<>>
            /\ (~WikiSucceeds(call.w) /\ ~AtlasSucceeds(call.w))
                   => origins = <<Sentinel>>
            /\ Sentinel \in Range(origins) => origins = <<Sentinel>>

(* both sources failed on the nonsense name and the call returned *)
C1_Witness ==
    /\ Returned
    /\ call.food_name = "Xyzzyfood123"
    /\ call.w.wiki.tag = "raise"
    /\ call.w.atlas.tag = "resp" /\ call.w.atlas.status_code = 404
    /\ ret.value.origins = <<Sentinel>>

(* C7: the two sources are attempted independently. The list holds a    *)
(* record of a source exactly when every step of that source succeeded, *)
(* both sources are attempted whatever the other did, and what one      *)
(* source contributes does not change with the answers the other got.   *)
C7_SourcesIndependent ==
    Returned =>
        LET origins == ret.value.origins
            calls == ret.value.calls
            w == call.w
            f == call.food_name
        IN  /\ WikiRecords(origins) # <<>> <=> WikiSucceeds(w)
            /\ AtlasRecords(origins) # <<>> <=> AtlasSucceeds(w)
            /\ \E i \in DOMAIN calls : calls[i][1] = "wikipedia.summary"
            /\ \E i \in DOMAIN calls : calls[i][1] = "requests.get"
            /\ \A a \in WikiOutcomes, g \in GeocodeOutcomes :
                 AtlasRecords(get_food_origin_coordinates(f,
                     [w EXCEPT !.wiki = a, !.wiki_location = g]).origins)
                   = AtlasRecords(origins)
            /\ \A a \in AtlasOutcomes, g \in GeocodeOutcomes :
                 WikiRecords(get_food_origin_coordinates(f,
                     [w EXCEPT !.atlas = a, !.location = g]).origins)
                   = WikiRecords(origins)

(* "Pizza": the encyclopedia source succeeded, the atlas page came back *)
(* with 404, and the list is the encyclopedia record alone              *)
C7_Witness ==
    /\ Returned
    /\ call.food_name = "Pizza"
    /\ WikiSucceeds(call.w)
    /\ call.w.atlas.tag = "resp" /\ call.w.atlas.status_code = 404
    /\ Len(ret.value.origins) = 1
    /\ IsWikiRecord(ret.value.origins[1])

(* C8: in the list returned there is at most one record per source, the *)
(* encyclopedia record comes before the atlas record, and the first     *)
(* entry is the encyclopedia record whenever that source succeeded.     *)
C8_EncyclopediaFirst ==
    Returned =>
        LET origins == ret.value.origins
        IN  /\ Len(WikiRecords(origins)) <= 1
            /\ Len(AtlasRecords(origins)) <= 1
            /\ \A i, j \in DOMAIN origins :
                 IsWikiRecord(origins[i]) /\ IsAtlasRecord(origins[j]) => i < j
            /\ WikiSucceeds(call.w) => IsWikiRecord(origins[1])

(* both sources succeeded: two records, the encyclopedia's first *)
C8_Witness ==
    /\ Returned
    /\ WikiSucceeds(call.w)
    /\ AtlasSucceeds(call.w)
    /\ Len(ret.value.origins) = 2
    /\ IsWikiRecord(ret.value.origins[1])
    /\ IsAtlasRecord(ret.value.origins[2])

----------------------------------------------------------------------------
(* Properties of get_nutritional_data, under SpecNutrition.                *)

(* the service answered 200 with a non-empty foods array *)
FoodsFound ==
    /\ call.r.tag = "resp"
    /\ call.r.status_code = 200
    /\ call.r.json.tag = "data"
    /\ Get(call.r.json.data, "foods", <<>>) # <<>>

(* the nutrient entries of the first food, none if it has no list *)
FirstFoodNutrients == Get(call.r.json.data.foods[1], "foodNutrients", <<>>)

(* C5: when the service answers 200 with a non-empty foods array whose *)
(* first food has fewer than 4 nutrient entries (none at all, or no    *)
(* list), the call returns a record in which each of Calories,         *)
(* Protein, Fat, Carbs without an entry is "N/A"; no IndexError.       *)
C5_MissingNutrientsAreNA ==
    (ret # Pending /\ FoodsFound /\ Len(FirstFoodNutrients) < Len(NutrientFields))
        => /\ ret.tag = "return"
           /\ \A i \in DOMAIN NutrientFields :
                i > Len(FirstFoodNutrients) => ret.value[NutrientFields[i]] = "N/A"

----------------------------------------------------------------------------
(* Properties of the script run, under Spec.                               *)

ItemFields == {"origin", "nutrition", "fact"}

(* the run has shown item i's result of resolver f *)
Surfaced(i, f) ==
    \E n \in DOMAIN ui :
        /\ ui[n].widget \in {"markdown", "json"}
        /\ ui[n].item = i
        /\ ui[n].field = f

(* resolver f was called for item i and returned *)
ReturnedFor(i, f) ==
    \E n \in DOMAIN events : events[n] = [item |-> i, fn |-> f, outcome |-> "return"]

CalledFor(i, f) ==
    \E n \in DOMAIN events : events[n].item = i /\ events[n].fn = f

(* the per-item loop is inside item i *)
InProgress(i) == idx = i /\ pc \in {"origin", "nutrition", "fact"}

(* detect_food_from_image returned and its image was shown *)
Detected == \E n \in DOMAIN ui : ui[n].widget = "image"

MissingCredentials == {c \in Credentials : ~env[c]}

(* C2: enriching an item never raises, whichever resolver fails, and *)
(* every item the loop is done with has all three fields shown, a    *)
(* placeholder standing for a resolver that failed. Stated of the    *)
(* runs that have every credential.                                  *)
C2_EnrichNeverRaises ==
    MissingCredentials = {} =>
    /\ \A n \in DOMAIN events : events[n].outcome = "return"
    /\ \A i \in 1..idx :
         ~InProgress(i) => \A f \in ItemFields : Surfaced(i, f)

(* C4: when no localized object has an accepted label, the detection  *)
(* list is empty, nothing is drawn on the image, and the request      *)
(* cycle that ran the detection does not raise. Stated of the runs    *)
(* that have every credential.                                        *)
C4_NoQualifyingObject ==
    (MissingCredentials = {} /\ Detected /\ \A n \in DOMAIN response : Lower(response[n].name) \notin AcceptedLabels)
        => /\ detected_foods = <<>>
           /\ image_cv = <<>>
           /\ pc # "raised"

(* the credentials an st.error of the run names as absent *)
ReportedAbsent ==
    {c \in Credentials :
        /\ c = "GOOGLE_APPLICATION_CREDENTIALS_PATH"
        /\ \E n \in DOMAIN ui : ui[n] = [widget |-> "error", text |-> GoogleNotFound]}

(* C6: a run that started with a credential missing goes no further   *)
(* than start-up, reports every absent credential, processes no       *)
(* upload and calls no external service.                              *)
C6_RefusesToStart ==
    MissingCredentials # {}
        => /\ pc = "start" \/ MissingCredentials \subseteq ReportedAbsent
           /\ pc \in {"start", "form"}
           /\ ~uploaded_file
           /\ ext_calls = <<>>

(* C10 as stated: nothing of an item is shown before all three of its *)
(* resolver calls returned, and item i's three calls returned before  *)
(* any call for item i + 1. Stated of the runs that have every        *)
(* credential.                                                        *)
C10_BarrierJoin ==
    MissingCredentials = {} =>
    /\ \A i \in 1..idx, f \in ItemFields :
         Surfaced(i, f) => \A g \in ItemFields : ReturnedFor(i, g)
    /\ \A i \in 2..idx, f \in ItemFields :
         CalledFor(i, f) => \A g \in ItemFields : ReturnedFor(i - 1, g)

(* C10, amended: the three calls of an item run one after another     *)
(* (origin, nutrition, fact), each result is shown exactly when its   *)
(* own call has returned, and no call for item i + 1 is made before   *)
(* item i's three calls returned.                                     *)
C10_SequentialItems ==
    /\ \A i \in 1..Len(detected_foods), f \in ItemFields :
         Surfaced(i, f) <=> ReturnedFor(i, f)
    /\ \A n \in DOMAIN events :
         LET e == events[n]
             Before(i, f) ==
                 \E m \in 1..(n - 1) :
                     events[m] = [item |-> i, fn |-> f, outcome |-> "return"]
         IN  e.item >= 1 =>
                 /\ e.item > 1 => \A g \in ItemFields : Before(e.item - 1, g)
                 /\ e.fn = "nutrition" => Before(e.item, "origin")
                 /\ e.fn = "fact" => Before(e.item, "nutrition")

(* the second item's origin is on screen, its nutrition not yet asked *)
(* for, and the first item's three results are complete               *)
C10_Witness ==
    /\ idx = 2
    /\ pc = "nutrition"
    /\ Surfaced(2, "origin")
    /\ ~CalledFor(2, "nutrition")
    /\ \A g \in ItemFields : ReturnedFor(1, g) /\ Surfaced(1, g)

----------------------------------------------------------------------------
(* Properties of the lru_cache wrapper, under SpecCache (callers that may  *)
(* overlap) and SpecLru (one caller).                                      *)

(* the callers inside the wrapped function for key k *)
InFlight(k) == {t \in Threads : threads[t].pc = "computing" /\ threads[t].key = k}

(* C3 as stated: a key's value is computed at most once, at most one  *)
(* compute per key is in flight, and the calls for a key return the   *)
(* same value.                                                        *)
C3_ComputedAtMostOnce ==
    \A k \in AllKeys :
        /\ computes[k] <= 1
        /\ Cardinality(InFlight(k)) <= 1
        /\ \A t, u \in Threads :
             (/\ threads[t].key = k /\ threads[t].result.tag = "return"
              /\ threads[u].key = k /\ threads[u].result.tag = "return")
                 => threads[t].result = threads[u].result

(* C3, amended: a call made while its key is in the cache returns the *)
(* cached value and does not invoke the wrapped function; a call made *)
(* while its key is not in the cache invokes it once, whoever else is *)
(* computing that key.                                                *)
C3_HitReturnsCached ==
    [][\A t \in Threads :
          threads'[t].n = threads[t].n + 1 =>
              LET k == threads'[t].key
              IN  IF k \in CacheKeys(cache[kind])
                  THEN /\ computes' = computes
                       /\ threads'[t].pc = "idle"
                       /\ threads'[t].result = Return(CacheValue(cache[kind], k))
                  ELSE /\ computes' = [computes EXCEPT ![k] = @ + 1]
                       /\ threads'[t].pc = "computing"]_vars

(* a caller got the value of a name cached before, which was computed *)
(* once and not again                                                  *)
C3_Witness ==
    \E t \in Threads :
        /\ threads[t].n >= 1
        /\ threads[t].pc = "idle"
        /\ threads[t].key \in 1..HotKeys
        /\ computes[threads[t].key] = 1
        /\ threads[t].result = Return(<<threads[t].key, 1>>)

(* C9: the cache never holds more than maxsize entries; a lookup of a *)
(* new key made while the cache is full evicts exactly one entry, the *)
(* least recently used; and the cached keys are those the sequence of *)
(* lookups determines.                                                *)
C9_EvictsLeastRecentlyUsed ==
    [][/\ Len(cache'[kind]) <= maxsize
       /\ \A t \in Threads :
            (/\ threads'[t] # threads[t]
             /\ threads'[t].pc = "idle")
                => LET k == threads'[t].key
                       c == cache[kind]
                   IN  /\ (k \notin CacheKeys(c) /\ Len(c) = maxsize)
                              => /\ Len(cache'[kind]) = maxsize
                                 /\ CacheKeys(cache'[kind])
                                        = (CacheKeys(c) \ {c[1].key}) \cup {k}
                       /\ CacheKeys(cache'[kind]) = Range(expected')]_vars

====
